---- MODULE Spec2Model ----
(***************************************************************************)
(* Model of src/app.py: a Streamlit script that fills the meta-prompt      *)
(* template with two text fields and posts it to Claude, GPT-4o and        *)
(* DeepSeek.  One behaviour is one script run: the top-to-bottom           *)
(* execution of app.py for one set of widget values.                       *)
(* The run blocks inside requests.post, so the states in which a request   *)
(* is in flight are states of the model.                                   *)
(*                                                                         *)
(* Text is modelled as a sequence of tokens.  The API keys are taken to be *)
(* configured as lines 11-15 of app.py require.                            *)
(***************************************************************************)
EXTENDS Integers, Sequences, FiniteSets, TLC

\* ------------------------------------------------------------------ bounds
\* longest text typed into a text area, in tokens
MaxLen == 1
\* longest text a provider answers with, in tokens
MaxOut == 1

\* ------------------------------------------------------------------- text
\* tokens a user types into the two text areas; "{requirements}" looks like
\* a placeholder of the template
IdeaTok == {"a", "{requirements}"}
ReqTok == {"{requirements}"}

TextsUpTo(alphabet, n) == UNION {[1..k -> alphabet] : k \in 0..n}

IdeaTexts == TextsUpTo(IdeaTok, MaxLen)

ReqTexts == TextsUpTo(ReqTok, MaxLen)

OutputTexts == TextsUpTo({"x"}, MaxOut)

RECURSIVE Flatten(_)
Flatten(ss) == IF ss = <<>> THEN <<>> ELSE Head(ss) \o Flatten(Tail(ss))

\* ------------------------------------------------------------ the template
META_PROMPT_TEMPLATE ==
  << "You are an Expert AI Prompt Engineer",
     "**PROJECT IDEA:**", "{project_idea}",
     "**REQUIREMENTS:**", "{requirements}",
     "Please follow this exact structure for the output prompt:",
     "**Role:**", "**Context:**", "**Task Instructions:**",
     "**Constraints:**", "**Output Format:**", "---" >>

\* str.replace on token sequences: every occurrence of field becomes value
Replace(s, field, value) ==
  Flatten([i \in 1..Len(s) |-> IF s[i] = field THEN value ELSE <<s[i]>>])

\* a formatter that substitutes one field after the other, rescanning the
\* text the first substitution produced
FormatByReplace(template, idea, reqs) ==
  Replace(Replace(template, "{project_idea}", idea), "{requirements}", reqs)

\* str.format(project_idea=..., requirements=...): one pass over the
\* template; the substituted values are not scanned for fields
Format(template, idea, reqs) ==
  Flatten([i \in 1..Len(template) |->
             IF template[i] = "{project_idea}" THEN idea
             ELSE IF template[i] = "{requirements}" THEN reqs
             ELSE <<template[i]>>])

NoExtraRequirements == <<"No extra requirements.">>

\* ------------------------------------------------------------ the sidebar
ModelOptions ==
  << <<"Claude", " 3.5 Sonnet (Best for Logic)">>,
     <<"GPT", "-4o (Best for Creativity)">>,
     <<"DeepSeek", " V3 (Best for Syntax)">> >>

\* Python's `word in label`
Contains(word, label) == \E i \in 1..Len(label) : label[i] = word

Providers == {"claude", "gpt4o", "deepseek"}

\* a dispatch that tests the labels in the wrong order of preference
DispatchElseFirst(label) ==
  IF Contains("Claude", label) THEN "claude"
  ELSE IF Contains("DeepSeek", label) THEN "gpt4o"
  ELSE "deepseek"

\* the if / elif / else of the Generate handler
Dispatch(label) ==
  IF Contains("Claude", label) THEN "claude"
  ELSE IF Contains("GPT", label) THEN "gpt4o"
  ELSE "deepseek"

\* ------------------------------------------------------- JSON and Python
JStr(v) == [t |-> "str", v |-> v]
JObj(m) == [t |-> "obj", m |-> m]
JArr(a) == [t |-> "arr", a |-> a]
Malformed == [t |-> "malformed"]

Key(k) == [key |-> k]
Idx(i) == [idx |-> i]

Return(v) == [ok |-> TRUE, value |-> v]
Raise(e) == [ok |-> FALSE, exc |-> e]

\* Python's j[step] on a decoded JSON value
Subscript(j, step) ==
  IF j.t = "obj"
    THEN IF "key" \in DOMAIN step /\ step.key \in DOMAIN j.m
           THEN Return(j.m[step.key])
           ELSE Raise([type |-> "KeyError"])
  ELSE IF j.t = "arr"
    THEN IF "idx" \in DOMAIN step
           THEN IF step.idx + 1 \in DOMAIN j.a
                  THEN Return(j.a[step.idx + 1])
                  ELSE Raise([type |-> "IndexError"])
           ELSE Raise([type |-> "TypeError"])
  ELSE \* a str
       IF "idx" \in DOMAIN step
         THEN IF step.idx + 1 \in DOMAIN j.v
                THEN Return(JStr(<<j.v[step.idx + 1]>>))
                ELSE Raise([type |-> "IndexError"])
         ELSE Raise([type |-> "TypeError"])

RECURSIVE Lookup(_, _)
Lookup(j, path) ==
  IF path = <<>> THEN Return(j)
  ELSE LET r == Subscript(j, Head(path))
       IN IF r.ok THEN Lookup(r.value, Tail(path)) ELSE r

\* ----------------------------------------------------------- HTTP replies
Transport == [kind |-> "transport"]
Http(status, body) == [kind |-> "http", status |-> status, body |-> body]

ClaudeShape(x) == JObj([content |-> JArr(<<JObj([text |-> JStr(x)])>>)])
ChatShape(x) ==
  JObj([choices |-> JArr(<<JObj([message |-> JObj([content |-> JStr(x)])])>>)])

Bodies ==
  { Malformed,
    JObj([error |-> JStr(<<"unauthorized">>)]),
    JObj([content |-> JStr(<<"text">>), choices |-> JStr(<<"text">>)]) }
  \cup {ClaudeShape(x) : x \in OutputTexts}
  \cup {ChatShape(x) : x \in OutputTexts}

Statuses == {200, 304, 401}

Responses == {Transport} \cup {Http(s, b) : s \in Statuses, b \in Bodies}

\* requests.post: the reply arrives, or the transport fails
post(r) ==
  IF r.kind = "transport" THEN Raise([type |-> "ConnectionError"]) ELSE Return(r)

\* Response.raise_for_status: only 4xx and 5xx raise
raise_for_status(r) ==
  IF 400 <= r.status /\ r.status < 600
    THEN Raise([type |-> "HTTPError", status |-> r.status, body |-> r.body])
    ELSE Return(r)

\* Response.json
json(r) ==
  IF r.body = Malformed THEN Raise([type |-> "JSONDecodeError"]) ELSE Return(r.body)

\* the three lines every client ends with
Extract(r, path) ==
  LET sent == post(r)
  IN IF ~sent.ok THEN sent
     ELSE LET checked == raise_for_status(r)
          IN IF ~checked.ok THEN checked
             ELSE LET decoded == json(r)
                  IN IF ~decoded.ok THEN decoded
                     ELSE LET found == Lookup(decoded.value, path)
                          IN IF found.ok /\ found.value.t = "str"
                               THEN Return(found.value.v)
                               ELSE found

ChatPath == <<Key("choices"), Idx(0), Key("message"), Key("content")>>

call_claude(r) == Extract(r, <<Key("content"), Idx(0), Key("text")>>)

call_gpt4o(r) == Extract(r, ChatPath)

\* a client that reads the reply with another provider's key path
call_deepseek_claude_path(r) == Extract(r, <<Key("content"), Idx(0), Key("text")>>)

call_deepseek(r) == Extract(r, ChatPath)

Call(p, r) ==
  IF p = "claude" THEN call_claude(r)
  ELSE IF p = "gpt4o" THEN call_gpt4o(r)
  ELSE call_deepseek(r)

\* ------------------------------------------------------------------ state
VARIABLES
  model,         \* the selectbox value
  project_idea,  \* first text area
  requirements,  \* second text area
  button,        \* st.button: TRUE in the run its click started
  compare,       \* the checkbox
  pc,            \* where the script run is
  cur,           \* index in CompareOrder of the comparison call in flight, 0 if none
  inflight,      \* providers with an HTTP request in flight
  requests,      \* the HTTP requests this run has issued, in order
  lastCall,      \* the call that returned last in this run: reply and outcome
  main,          \* elements rendered in the main area by this run
  cols           \* elements rendered in each of the three columns

vars == <<model, project_idea, requirements, button, compare, pc, cur,
          inflight, requests, lastCall, main, cols>>

CompareOrder == <<"claude", "gpt4o", "deepseek">>

NoCall == [by |-> "none"]

Request(p, by, prompt) == [provider |-> p, by |-> by, prompt |-> prompt]

ErrorPrefix(p) ==
  IF p = "claude" THEN "Error with Claude API: "
  ELSE IF p = "gpt4o" THEN "Error with GPT-4o API: "
  ELSE "Error with DeepSeek API: "

ColumnErrorPrefix(p) ==
  IF p = "claude" THEN "Claude Error: "
  ELSE IF p = "gpt4o" THEN "GPT-4o Error: "
  ELSE "DeepSeek Error: "

Subheader(p) ==
  IF p = "claude" THEN "Claude 3.5 Sonnet"
  ELSE IF p = "gpt4o" THEN "GPT-4o"
  ELSE "DeepSeek V3"

FileName(p) ==
  IF p = "claude" THEN "claude_prompt.md"
  ELSE IF p = "gpt4o" THEN "gpt_prompt.md"
  ELSE "deepseek_prompt.md"

\* str(e), the text the f-strings put after the prefix
Str(e) ==
  IF e.type = "HTTPError" THEN [type |-> e.type, status |-> e.status]
  ELSE [type |-> e.type]

StError(msg) == [w |-> "error", msg |-> msg]
StApiError(prefix, text) == [w |-> "error", msg |-> prefix, exc |-> text]
StCode(text) == [w |-> "code", body |-> text]
StDownload(text, name) == [w |-> "download_button", data |-> text, file_name |-> name]
StHeader(text) == [w |-> "header", body |-> text]

\* Streamlit starts a script run at every widget interaction, with the
\* widget values of that moment; nothing else survives from run to run
Init ==
  /\ model \in {ModelOptions[i] : i \in 1..Len(ModelOptions)}
  /\ project_idea \in IdeaTexts
  /\ requirements \in ReqTexts
  /\ button \in BOOLEAN
  /\ compare \in BOOLEAN
  /\ pc = "button"
  /\ cur = 0
  /\ inflight = {}
  /\ requests = <<>>
  /\ lastCall = NoCall
  /\ main = <<>>
  /\ cols = <<<<>>, <<>>, <<>>>>

Inputs == <<model, project_idea, requirements, button, compare>>

\* ---------------------------------------------------------------- actions
\* where a script run goes when the single-mode call raised and the handler
\* forgot st.stop()
AfterSingleErrorFallThrough == "compare"

\* lines 161, 167, 173: st.stop() ends the script run
AfterSingleError == "stopped"

\* a comparison guard that forgets the project idea
CompareGuardCheckboxOnly == compare

\* line 191: `if compare and project_idea`
CompareGuard == compare /\ project_idea # <<>>

\* a comparison block with one try around the three calls: the first
\* exception skips the calls that follow
AfterCompareCallAbort(i, out) == IF out.ok /\ i < 3 THEN i + 1 ELSE 0

\* the three try blocks follow each other whatever the outcome: the index
\* of the next comparison call, 0 after the last
AfterCompareCall(i, out) == IF i < 3 THEN i + 1 ELSE 0

\* an except clause copied without changing the column
ErrorColumnFirst(i) == 1

\* lines 211, 229, 247: the column the except clause of block i writes to
ErrorColumn(i) == i

\* lines 144-173, up to the blocking requests.post of the selected client
Generate ==
  /\ pc = "button"
  /\ IF ~button
       THEN /\ pc' = "compare"
            /\ UNCHANGED <<inflight, requests, main>>
     ELSE IF project_idea = <<>>
       THEN /\ main' = Append(main, StError("Please enter a project idea."))
            /\ pc' = "compare"
            /\ UNCHANGED <<inflight, requests>>
     ELSE LET meta_prompt ==
                Format(META_PROMPT_TEMPLATE, project_idea,
                       IF requirements # <<>> THEN requirements
                       ELSE NoExtraRequirements)
              p == Dispatch(model)
          IN /\ requests' = Append(requests, Request(p, "single", meta_prompt))
             /\ inflight' = {p}
             /\ pc' = "single"
             /\ UNCHANGED main
  /\ UNCHANGED <<Inputs, cur, lastCall, cols>>

\* lines 156-185, from the reply of the selected client on
SingleReturn(r) ==
  /\ pc = "single"
  /\ LET p == Dispatch(model)
         out == Call(p, r)
     IN /\ lastCall' = [by |-> "single", provider |-> p, reply |-> r, outcome |-> out]
        /\ inflight' = {}
        /\ IF out.ok
             THEN /\ main' = main \o <<StHeader("Generated Prompt"),
                                        StCode(out.value),
                                        StDownload(out.value, "ai_prompt.md")>>
                  /\ pc' = "compare"
             ELSE /\ main' = Append(main, StApiError(ErrorPrefix(p), Str(out.exc)))
                  /\ pc' = AfterSingleError
  /\ UNCHANGED <<Inputs, cur, requests, cols>>

\* the prompt every comparison block builds (lines 199-202, 217-220, 235-238)
ComparePrompt == Format(META_PROMPT_TEMPLATE, project_idea, requirements)

\* lines 191-202, up to the blocking requests.post of call_claude
CompareEnter ==
  /\ pc = "compare"
  /\ IF CompareGuard
       THEN /\ cols' = [cols EXCEPT ![1] = Append(@, StHeader(Subheader(CompareOrder[1])))]
            /\ requests' = Append(requests, Request(CompareOrder[1], "compare", ComparePrompt))
            /\ inflight' = {CompareOrder[1]}
            /\ cur' = 1
            /\ pc' = "cmp"
       ELSE /\ pc' = "done"
            /\ UNCHANGED <<cols, requests, inflight, cur>>
  /\ UNCHANGED <<Inputs, lastCall, main>>

\* from the reply to comparison call number cur up to the next blocking
\* requests.post, or to the end of the script
CompareReturn(r) ==
  /\ pc = "cmp"
  /\ LET p == CompareOrder[cur]
         out == Call(p, r)
         nxt == AfterCompareCall(cur, out)
         shown ==
           IF out.ok
             THEN [cols EXCEPT ![cur] = @ \o <<StCode(out.value),
                                               StDownload(out.value, FileName(p))>>]
             ELSE [cols EXCEPT ![ErrorColumn(cur)] =
                                  Append(@, StApiError(ColumnErrorPrefix(p), Str(out.exc)))]
     IN /\ lastCall' = [by |-> "compare", provider |-> p, reply |-> r, outcome |-> out]
        /\ IF nxt # 0
             THEN /\ cols' = [shown EXCEPT ![nxt] =
                                Append(@, StHeader(Subheader(CompareOrder[nxt])))]
                  /\ requests' = Append(requests,
                                        Request(CompareOrder[nxt], "compare", ComparePrompt))
                  /\ inflight' = {CompareOrder[nxt]}
                  /\ cur' = nxt
                  /\ pc' = "cmp"
             ELSE /\ cols' = shown
                  /\ inflight' = {}
                  /\ cur' = 0
                  /\ pc' = "done"
                  /\ UNCHANGED requests
  /\ UNCHANGED <<Inputs, main>>

Next ==
  \/ Generate
  \/ \E r \in Responses : SingleReturn(r)
  \/ CompareEnter
  \/ \E r \in Responses : CompareReturn(r)

Spec == Init /\ [][Next]_vars

TypeOK ==
  /\ pc \in {"button", "single", "compare", "cmp", "done", "stopped"}
  /\ cur \in 0..3
  /\ inflight \subseteq Providers
  /\ Len(requests) <= 4

\* ------------------------------------------------------- what claims use
RunOver == pc \in {"done", "stopped"}

RequestsTo(p) == Cardinality({i \in DOMAIN requests : requests[i].provider = p})

RequestsBy(by) == Cardinality({i \in DOMAIN requests : requests[i].by = by})

\* the provider of the option selected in the sidebar, by its place in the list
SelectedProvider == CompareOrder[CHOOSE i \in 1..Len(ModelOptions) : ModelOptions[i] = model]

IndexOf(p) == CHOOSE i \in 1..3 : CompareOrder[i] = p

SingleFailed ==
  \E k \in DOMAIN main : main[k].w = "error" /\ "exc" \in DOMAIN main[k]

SingleSucceeded == \E k \in DOMAIN main : main[k].w = "code"

\* what column i shows once its block has run with outcome out
ColumnFor(i, out) ==
  IF out.ok
    THEN <<StHeader(Subheader(CompareOrder[i])), StCode(out.value),
           StDownload(out.value, FileName(CompareOrder[i]))>>
    ELSE <<StHeader(Subheader(CompareOrder[i])),
           StApiError(ColumnErrorPrefix(CompareOrder[i]), Str(out.exc))>>

Outcomes == {Call(p, r) : p \in Providers, r \in Responses}

\* column i shows the result of its own provider, or the error of its own provider
Settled(i) == \E out \in Outcomes : cols[i] = ColumnFor(i, out)

ColumnFailed(i) == \E k \in DOMAIN cols[i] : cols[i][k].w = "error"

\* ------------------------------------------------------------------ claims
\* C1: in a script run whose project idea is empty no request to a provider
\* is ever issued, whatever the button, the checkbox, the selected model and
\* the requirements text are.
C1_NoCallOnEmptyIdea ==
  project_idea = <<>> =>
    /\ requests = <<>>
    /\ inflight = {}
    /\ lastCall = NoCall
    /\ pc \notin {"single", "cmp"}

C1_Witness ==
  /\ project_idea = <<>>
  /\ requirements # <<>>
  /\ button
  /\ compare
  /\ pc = "done"
  /\ main = <<StError("Please enter a project idea.")>>

\* C2: once the comparison block has been entered, whichever of the three
\* calls fail, every provider is called once by the block and its column
\* shows its own result or its own error; an error is shown in the column of
\* the provider that failed and nowhere else.
C2_FailuresStayInTheirColumn ==
  /\ lastCall.by = "compare" =>
       cols[IndexOf(lastCall.provider)] =
         ColumnFor(IndexOf(lastCall.provider), Call(lastCall.provider, lastCall.reply))
  /\ (pc = "done" /\ RequestsBy("compare") > 0) =>
       \A i \in 1..3 :
         /\ Cardinality({k \in DOMAIN requests :
                           /\ requests[k].by = "compare"
                           /\ requests[k].provider = CompareOrder[i]}) = 1
         /\ Settled(i)
  /\ \A i \in 1..3 : \A k \in DOMAIN cols[i] :
       cols[i][k].w = "error" => cols[i][k].msg = ColumnErrorPrefix(CompareOrder[i])
  /\ \A k \in DOMAIN main :
       main[k].w = "error" =>
         main[k].msg \notin {ColumnErrorPrefix(q) : q \in Providers}

C2_Witness ==
  /\ pc = "done"
  /\ ColumnFailed(1)
  /\ ~ColumnFailed(2)
  /\ ColumnFailed(3)
  /\ Len(cols[2]) = 3
  /\ RequestsBy("compare") = 3

\* C3: a failed single-mode call does not end the run: with the button
\* pressed, the checkbox set and a project idea given, the three comparison
\* calls are made and the three columns rendered although the selected
\* model's call failed.
C3_SingleErrorKeepsComparison ==
  (RunOver /\ button /\ compare /\ project_idea # <<>> /\ SingleFailed) =>
    /\ RequestsBy("compare") = 3
    /\ \A i \in 1..3 : Settled(i)

\* the place of the first token h in a text, 0 if there is none
FirstIndex(text, h) ==
  IF \E i \in DOMAIN text : text[i] = h
    THEN CHOOSE i \in DOMAIN text : text[i] = h /\ \A k \in 1..(i - 1) : text[k] # h
    ELSE 0

\* the tokens of a prompt between the REQUIREMENTS header and the line that
\* follows the section in the template
RequirementsSection(prompt) ==
  SubSeq(prompt,
         FirstIndex(prompt, "**REQUIREMENTS:**") + 1,
         FirstIndex(prompt, "Please follow this exact structure for the output prompt:") - 1)

\* C4: a prompt rendered from an empty requirements field carries the
\* sentinel "No extra requirements." in its REQUIREMENTS section, in single
\* mode and in comparison mode, and the two modes send the same prompt.
C4_SentinelInBothModes ==
  /\ requirements = <<>> =>
       \A k \in DOMAIN requests :
         RequirementsSection(requests[k].prompt) = NoExtraRequirements
  /\ \A k, l \in DOMAIN requests : requests[k].prompt = requests[l].prompt

\* the body has the shape the client of provider p reads
ExpectedShape(p, body) ==
  \E x \in OutputTexts : body = (IF p = "claude" THEN ClaudeShape(x) ELSE ChatShape(x))

\* C5: a call whose reply has a status outside 2xx, or a 2xx status and a
\* body that does not have the expected shape, fails with one kind of error
\* that carries the HTTP status and the body of the reply; a transport
\* failure is an error of another kind; no text is returned in these cases.
C5_ProviderErrorCarriesStatus ==
  lastCall.by # "none" =>
    LET out == lastCall.outcome
        r == lastCall.reply
    IN /\ (r.kind = "http" /\ (r.status \notin 200..299
                               \/ ~ExpectedShape(lastCall.provider, r.body))) =>
            /\ ~out.ok
            /\ out.exc.type = "HTTPError"
            /\ out.exc.status = r.status
            /\ out.exc.body = r.body
       /\ r.kind = "transport" =>
            /\ ~out.ok
            /\ out.exc.type # "HTTPError"

\* C6: a reply with status 200 and a body of the expected shape holding the
\* text X makes the client return exactly X, and X is what the code block
\* shows and what the download button offers.
C6_TextReturnedAndShown ==
  lastCall.by # "none" =>
    \A x \in OutputTexts :
      LET p == lastCall.provider
      IN lastCall.reply = Http(200, IF p = "claude" THEN ClaudeShape(x) ELSE ChatShape(x)) =>
           /\ lastCall.outcome = Return(x)
           /\ lastCall.by = "single" =>
                main = <<StHeader("Generated Prompt"), StCode(x),
                         StDownload(x, "ai_prompt.md")>>
           /\ lastCall.by = "compare" =>
                cols[IndexOf(p)] = <<StHeader(Subheader(p)), StCode(x),
                                     StDownload(x, FileName(p))>>

C6_Witness ==
  /\ lastCall.by = "compare"
  /\ lastCall.provider = "deepseek"
  /\ lastCall.reply = Http(200, ChatShape(<<"x">>))
  /\ cols[3] = <<StHeader("DeepSeek V3"), StCode(<<"x">>),
                 StDownload(<<"x">>, "deepseek_prompt.md")>>

C8_IssuedConcurrently ==
  pc = "cmp" => inflight = {CompareOrder[i] : i \in cur..3}

\* C8 as amended: the comparison calls are made one after another in the
\* order Claude, GPT-4o, DeepSeek, with at most one request in flight at any
\* time; a call is issued once the columns before it are settled, the
\* columns after it are still empty, and a column shows the outcome of the
\* reply of its own provider only.
C8_OneAtATime ==
  /\ Cardinality(inflight) <= 1
  /\ pc = "cmp" =>
       /\ inflight = {CompareOrder[cur]}
       /\ RequestsBy("compare") = cur
       /\ \A i \in 1..3 :
            /\ i < cur => Settled(i)
            /\ i = cur => cols[i] = <<StHeader(Subheader(CompareOrder[i]))>>
            /\ i > cur => cols[i] = <<>>
  /\ pc # "cmp" => inflight \subseteq {SelectedProvider}
  /\ (lastCall.by = "compare" /\ pc = "done") =>
       \A i \in 1..3 :
         /\ Settled(i)
         /\ i = 3 => cols[i] = ColumnFor(i, lastCall.outcome)

C8_Witness ==
  /\ pc = "cmp"
  /\ cur = 2
  /\ inflight = {"gpt4o"}
  /\ ColumnFailed(1)
  /\ cols[3] = <<>>

\* the headers of the template, in the order of the template
Headers ==
  << "**PROJECT IDEA:**", "**REQUIREMENTS:**", "**Role:**", "**Context:**",
     "**Task Instructions:**", "**Constraints:**", "**Output Format:**" >>

\* hs occurs in text as a subsequence, from place `from` on
RECURSIVE InOrder(_, _, _)
InOrder(hs, text, from) ==
  IF hs = <<>> THEN TRUE
  ELSE \E i \in from..Len(text) :
         /\ text[i] = Head(hs)
         /\ \A k \in from..(i - 1) : text[k] # Head(hs)
         /\ InOrder(Tail(hs), text, i + 1)

\* C9: every prompt sent for a non-empty project idea holds the project
\* idea verbatim right under the PROJECT IDEA header and the requirements
\* text verbatim right under the REQUIREMENTS header, also when a text holds
\* a placeholder-like token, and keeps the headers of the template in the
\* order PROJECT IDEA, REQUIREMENTS, Role, Context, Task Instructions,
\* Constraints, Output Format.
C9_InputsVerbatimHeadersInOrder ==
  \A k \in DOMAIN requests :
    LET prompt == requests[k].prompt
        i == FirstIndex(prompt, "**PROJECT IDEA:**")
        j == i + Len(project_idea) + 1
    IN /\ project_idea # <<>>
       /\ i > 0
       /\ SubSeq(prompt, i + 1, i + Len(project_idea)) = project_idea
       /\ j \in DOMAIN prompt
       /\ prompt[j] = "**REQUIREMENTS:**"
       /\ SubSeq(prompt, j + 1, j + Len(requirements)) = requirements
       /\ InOrder(<<"**Role:**", "**Context:**", "**Task Instructions:**",
                    "**Constraints:**", "**Output Format:**">>,
                  prompt, j + Len(requirements) + 1)
       /\ InOrder(Headers, prompt, 1)

C9_Witness ==
  /\ Len(requests) = 2
  /\ project_idea = <<"{requirements}">>
  /\ requirements = <<"{requirements}">>
  /\ requests[1].by = "single"
  /\ requests[2].by = "compare"
  /\ requests[2].prompt[3] = "{requirements}"

\* C10: in a script run a provider receives at most two requests and the run
\* issues at most four; at the end of the run a provider has received two
\* exactly when the project idea is not empty, the button was pressed with
\* that provider selected, that single-mode call succeeded and the checkbox
\* is set; the single-mode request comes before every comparison request;
\* the comparison requests go to Claude, GPT-4o, DeepSeek in that order, and
\* only the request issued last can be without its reply.
C10_RequestCountsAndOrder ==
  /\ Len(requests) <= 4
  /\ \A p \in Providers :
       /\ RequestsTo(p) <= 2
       /\ RunOver =>
            (RequestsTo(p) = 2 <=>
               /\ project_idea # <<>>
               /\ button
               /\ SelectedProvider = p
               /\ SingleSucceeded
               /\ compare)
  /\ \A k \in DOMAIN requests :
       requests[k].by = "single" => k = 1
  /\ LET first == IF requests # <<>> /\ requests[1].by = "single" THEN 1 ELSE 0
     IN \A k \in DOMAIN requests :
          k > first => /\ k - first \in 1..3
                       /\ requests[k].by = "compare"
                       /\ requests[k].provider = CompareOrder[k - first]
  /\ inflight # {} => inflight = {requests[Len(requests)].provider}

C10_Witness ==
  /\ pc = "done"
  /\ Len(requests) = 4
  /\ RequestsTo("gpt4o") = 2
  /\ requests[1] = Request("gpt4o", "single", requests[1].prompt)
  /\ requests[3] = Request("gpt4o", "compare", requests[3].prompt)

====
